---- MODULE Spec2Model ----
(***************************************************************************)
(* Appointment scheduling of the SmileCare clinic backend: the appointment *)
(* collection, the dentist availability predicate, the conflict query and  *)
(* the request handlers createAppointment, updateAppointment,              *)
(* cancelAppointment, rescheduleAppointment, confirmAppointment and        *)
(* completeAppointment.                                                    *)
(*                                                                         *)
(* A time of day is the string the schema stores ("09:00", "0:10"),        *)
(* written here as the sequence of its characters, and it is compared the  *)
(* way JavaScript and MongoDB compare strings.  A date is a day number;    *)
(* the day of the week of day n is n % 7.  Appointment.create and          *)
(* document.save persist the document after the pre-save hooks have run.   *)
(***************************************************************************)
EXTENDS Integers, Sequences, FiniteSets, TLC

VARIABLES appts, dentists, now, last, inflight, users, patients

vars == <<appts, dentists, now, last, inflight, users, patients>>

----------------------------------------------------------------------------
(* Bounds *)

MaxAppts == 2

MaxOps == 3

MaxStored == 2

MaxRules == 2

----------------------------------------------------------------------------
(* Strings *)

CharCode(c) ==
  CASE c = "0" -> 48 [] c = "1" -> 49 [] c = "2" -> 50 [] c = "3" -> 51
    [] c = "4" -> 52 [] c = "5" -> 53 [] c = "6" -> 54 [] c = "7" -> 55
    [] c = "8" -> 56 [] c = "9" -> 57 [] c = ":" -> 58

RECURSIVE StrLess(_, _)
StrLess(a, b) ==
  IF b = <<>> THEN FALSE
  ELSE IF a = <<>> THEN TRUE
  ELSE IF CharCode(Head(a)) < CharCode(Head(b)) THEN TRUE
  ELSE IF CharCode(Head(a)) > CharCode(Head(b)) THEN FALSE
  ELSE StrLess(Tail(a), Tail(b))

StrGreater(a, b) == StrLess(b, a)

StrLessEq(a, b) == ~ StrLess(b, a)

RECURSIVE ToNumber(_)
ToNumber(s) ==
  IF s = <<>> THEN 0
  ELSE ToNumber(SubSeq(s, 1, Len(s) - 1)) * 10 + (CharCode(s[Len(s)]) - 48)

ToMinutes(t) ==
  LET p == CHOOSE i \in 1..Len(t) : t[i] = ":"
  IN  ToNumber(SubSeq(t, 1, p - 1)) * 60 + ToNumber(SubSeq(t, p + 1, Len(t)))

\* /^([01]?[0-9]|2[0-3]):[0-5][0-9]$/
MatchesTimePattern(t) ==
  /\ Len(t) \in {4, 5}
  /\ t[Len(t) - 2] = ":"
  /\ t[Len(t) - 1] \in {"0", "1", "2", "3", "4", "5"}
  /\ CharCode(t[Len(t)]) \in 48..57
  /\ IF Len(t) = 4
       THEN CharCode(t[1]) \in 48..57
       ELSE \/ t[1] \in {"0", "1"} /\ CharCode(t[2]) \in 48..57
            \/ t[1] = "2" /\ t[2] \in {"0", "1", "2", "3"}

----------------------------------------------------------------------------
(* Request data *)

T0010u == <<"0", ":", "1", "0">>
T0900  == <<"0", "9", ":", "0", "0">>
T0930  == <<"0", "9", ":", "3", "0">>
T1000  == <<"1", "0", ":", "0", "0">>
T1700  == <<"1", "7", ":", "0", "0">>
T900u  == <<"9", ":", "0", "0">>
T930u  == <<"9", ":", "3", "0">>
T1015  == <<"1", "0", ":", "1", "5">>
T1030  == <<"1", "0", ":", "3", "0">>
T1045  == <<"1", "0", ":", "4", "5">>
T1100  == <<"1", "1", ":", "0", "0">>
T0920  == <<"0", "9", ":", "2", "0">>
T0945  == <<"0", "9", ":", "4", "5">>
T1200  == <<"1", "2", ":", "0", "0">>
T1645  == <<"1", "6", ":", "4", "5">>
T1715  == <<"1", "7", ":", "1", "5">>

Today == 1

Dates == {0, 1, 2}

PatientIds == {"p1", "p2"}

DentistIds == {"d1", "d2"}

None == "none"

\* req.user after protect: the role and the Patient profile of the user
Requesters ==
  { [role |-> "patient", profile |-> "p1"],
    [role |-> "dentist", profile |-> None],
    [role |-> "staff",   profile |-> None] }

\* the dentist role differs from staff only in the actor that cancel and
\* reschedule record; the other handlers are called as patient or staff
Callers == {r \in Requesters : r.role # "dentist"}

NoRecord == [set |-> FALSE]

----------------------------------------------------------------------------
(* Dentist: schedule.regularHours, schedule.timeOff, status *)

Hours(day, active) ==
  [dayOfWeek |-> day, startTime |-> T0900, endTime |-> T1700, isActive |-> active]

\* d1 works on day 1 only, d2 on days 1 and 2, 09:00-17:00 as in the seed data
SeedDentists ==
  [d \in DentistIds |->
     [status |-> "active",
      regularHours |-> IF d = "d1"
                         THEN << Hours(2, FALSE), Hours(1, TRUE) >>
                         ELSE << Hours(1, TRUE), Hours(2, TRUE) >>,
      timeOff |-> << >>,
      consultationDuration |-> 30,
      bufferTime |-> 15]]

getDay(date) == date % 7

\* a lookup that takes the last match
SetMax(S) == CHOOSE x \in S : \A y \in S : x >= y

SetMin(S) == CHOOSE x \in S : \A y \in S : x <= y

isAvailableAt(dentist, date, startTime, endTime) ==
  LET dayOfWeek == getDay(date)
      rh == dentist.regularHours
      found == {i \in 1..Len(rh) : rh[i].dayOfWeek = dayOfWeek /\ rh[i].isActive}
  IN  IF found = {} THEN FALSE
      ELSE LET regularHours == rh[SetMin(found)]
               hasTimeOff ==
                 \E i \in 1..Len(dentist.timeOff) :
                    /\ date >= dentist.timeOff[i].startDate
                    /\ date <= dentist.timeOff[i].endDate
                    /\ dentist.timeOff[i].isApproved
           IN  IF \/ StrLess(startTime, regularHours.startTime)
                  \/ StrGreater(endTime, regularHours.endTime)
                 THEN FALSE
                 ELSE ~ hasTimeOff

DigitChar(n) ==
  CASE n = 0 -> "0" [] n = 1 -> "1" [] n = 2 -> "2" [] n = 3 -> "3"
    [] n = 4 -> "4" [] n = 5 -> "5" [] n = 6 -> "6" [] n = 7 -> "7"
    [] n = 8 -> "8" [] n = 9 -> "9"

RECURSIVE toString(_)
\* Number.prototype.toString of a natural number
toString(n) ==
  IF n < 10 THEN << DigitChar(n) >>
  ELSE toString(n \div 10) \o << DigitChar(n % 10) >>

\* a padStart that pads nothing
padStartNothing(str, targetLength, padString) == str

RECURSIVE padStart(_, _, _)
\* String.prototype.padStart with a one-character padString
padStart(str, targetLength, padString) ==
  IF Len(str) >= targetLength THEN str
  ELSE padStart(<< padString >> \o str, targetLength, padString)

\* `${hour.toString().padStart(2, "0")}:${minute.toString().padStart(2, "0")}`
timeString(minutes) ==
  LET hour   == minutes \div 60
      minute == minutes % 60
  IN  padStart(toString(hour), 2, "0") \o << ":" >> \o padStart(toString(minute), 2, "0")

RECURSIVE SlotsUpToEnd(_, _, _, _)
\* a slot loop that lets a slot start as late as the end of the rule
SlotsUpToEnd(minutes, duration, totalSlotTime, endMinutes) ==
  IF minutes <= endMinutes
    THEN << timeString(minutes) >>
           \o SlotsUpToEnd(minutes + totalSlotTime, duration, totalSlotTime, endMinutes)
    ELSE << >>

RECURSIVE SlotsInTheMorning(_, _, _, _)
\* a slot loop that also stops at noon
SlotsInTheMorning(minutes, duration, totalSlotTime, endMinutes) ==
  IF minutes + duration <= endMinutes /\ minutes < 12 * 60
    THEN << timeString(minutes) >>
           \o SlotsInTheMorning(minutes + totalSlotTime, duration, totalSlotTime,
                                endMinutes)
    ELSE << >>

RECURSIVE SlotsFrom(_, _, _, _)
\* for (minutes = startMinutes; minutes + duration <= endMinutes;
\*      minutes += totalSlotTime) slots.push(timeString)
SlotsFrom(minutes, duration, totalSlotTime, endMinutes) ==
  IF minutes + duration <= endMinutes
    THEN << timeString(minutes) >>
           \o SlotsFrom(minutes + totalSlotTime, duration, totalSlotTime, endMinutes)
    ELSE << >>

\* a getAvailableSlots that takes every time-off entry as approved
getAvailableSlotsAnyTimeOff(dentist, date) ==
  LET dayOfWeek == getDay(date)
      rh == dentist.regularHours
      found == {i \in 1..Len(rh) : rh[i].dayOfWeek = dayOfWeek /\ rh[i].isActive}
  IN  IF found = {} THEN << >>
      ELSE LET regularHours == rh[SetMin(found)]
               hasTimeOff ==
                 \E i \in 1..Len(dentist.timeOff) :
                    /\ date >= dentist.timeOff[i].startDate
                    /\ date <= dentist.timeOff[i].endDate
               duration == dentist.consultationDuration
               buffer == dentist.bufferTime
               totalSlotTime == duration + buffer
               startMinutes == ToMinutes(regularHours.startTime)
               endMinutes == ToMinutes(regularHours.endTime)
           IN  IF hasTimeOff THEN << >>
               ELSE SlotsFrom(startMinutes, duration, totalSlotTime, endMinutes)

getAvailableSlots(dentist, date) ==
  LET dayOfWeek == getDay(date)
      rh == dentist.regularHours
      found == {i \in 1..Len(rh) : rh[i].dayOfWeek = dayOfWeek /\ rh[i].isActive}
  IN  IF found = {} THEN << >>
      ELSE LET regularHours == rh[SetMin(found)]
               hasTimeOff ==
                 \E i \in 1..Len(dentist.timeOff) :
                    /\ date >= dentist.timeOff[i].startDate
                    /\ date <= dentist.timeOff[i].endDate
                    /\ dentist.timeOff[i].isApproved
               duration == dentist.consultationDuration
               buffer == dentist.bufferTime
               totalSlotTime == duration + buffer
               startMinutes == ToMinutes(regularHours.startTime)
               endMinutes == ToMinutes(regularHours.endTime)
           IN  IF hasTimeOff THEN << >>
               ELSE SlotsFrom(startMinutes, duration, totalSlotTime, endMinutes)

----------------------------------------------------------------------------
(* Appointment *)

Ids == 1..MaxAppts

\* pre-save hook: duration from startTime and endTime
Duration(startTime, endTime) == ToMinutes(endTime) - ToMinutes(startTime)

\* a conflict query with closed intervals
ConflictMatchesClosed(coll, dentistId, appointmentDate, startTime, endTime, excludeId) ==
  {i \in 1..Len(coll) :
     /\ coll[i].dentist = dentistId
     /\ coll[i].appointmentDate = appointmentDate
     /\ coll[i].status \notin {"cancelled", "no-show"}
     /\ StrLessEq(coll[i].startTime, endTime)
     /\ StrLessEq(startTime, coll[i].endTime)
     /\ (excludeId # 0 => i # excludeId)}

\* a conflict query without the status filter
ConflictMatchesAnyStatus(coll, dentistId, appointmentDate, startTime, endTime, excludeId) ==
  {i \in 1..Len(coll) :
     /\ coll[i].dentist = dentistId
     /\ coll[i].appointmentDate = appointmentDate
     /\ StrLess(coll[i].startTime, endTime)
     /\ StrGreater(coll[i].endTime, startTime)
     /\ (excludeId # 0 => i # excludeId)}

\* the documents the conflict query matches, in collection order
ConflictMatches(coll, dentistId, appointmentDate, startTime, endTime, excludeId) ==
  {i \in 1..Len(coll) :
     /\ coll[i].dentist = dentistId
     /\ coll[i].appointmentDate = appointmentDate
     /\ coll[i].status \notin {"cancelled", "no-show"}
     /\ StrLess(coll[i].startTime, endTime)
     /\ StrGreater(coll[i].endTime, startTime)
     /\ (excludeId # 0 => i # excludeId)}

\* findOne: the first match, 0 for null
checkConflict(coll, dentistId, appointmentDate, startTime, endTime, excludeId) ==
  LET m == ConflictMatches(coll, dentistId, appointmentDate, startTime,
                           endTime, excludeId)
  IN  IF m = {} THEN 0 ELSE SetMin(m)

\* pre-save hook: the appointmentId sequence number, one more than the
\* number of appointments created today
NextAppointmentId(coll) == Len(coll) + 1

NewAppointment(appointmentId, body) ==
  [appointmentId   |-> appointmentId,
   patient         |-> body.patient,
   dentist         |-> body.dentist,
   appointmentDate |-> body.appointmentDate,
   startTime       |-> body.startTime,
   endTime         |-> body.endTime,
   duration        |-> Duration(body.startTime, body.endTime),
   status          |-> "scheduled",
   symptoms        |-> "s0",
   notes           |-> [beforeAppointment |-> "b0"],
   reminders       |-> << >>,
   cancellation    |-> NoRecord,
   rescheduling    |-> NoRecord,
   completion      |-> NoRecord]

----------------------------------------------------------------------------
(* Route middleware *)

patientOnly(req) == req.role = "patient"

authorizeStaff(req) == req.role \in {"dentist", "admin", "staff"}

\* validateAppointment: date not in the past, end time after start time
validateAppointment(body) ==
  /\ body.appointmentDate >= Today
  /\ MatchesTimePattern(body.startTime)
  /\ MatchesTimePattern(body.endTime)
  /\ ~ StrLessEq(body.endTime, body.startTime)

----------------------------------------------------------------------------
(* Handlers *)

\* the response, with the requester's role and the body where the handler
\* reads them into what it stores
ReplyTo(op, role, body, id, code) ==
  /\ last' = [op |-> op, role |-> role, body |-> body, id |-> id, code |-> code]
  /\ now' = now + 1

Reply(op, id, code) == ReplyTo(op, None, NoRecord, id, code)

\* <<startTime, endTime>> pairs of a request: a half hour with two-digit
\* hours, and an interval whose start has a one-digit hour
Intervals == { <<T0900, T0930>>, <<T0010u, T1000>> }

InvertedIntervals == { <<T0930, T0900>> }

NominalBodies ==
  { [patient |-> p, dentist |-> d, appointmentDate |-> dt,
     startTime |-> iv[1], endTime |-> iv[2]] :
      p \in PatientIds, d \in DentistIds, dt \in Dates \ {0}, iv \in Intervals }

BaseBody ==
  [patient |-> "p1", dentist |-> "d1", appointmentDate |-> 1,
   startTime |-> T0900, endTime |-> T0930]

\* a missing patient, a missing dentist, a past date, an end before the start
OffNominalBodies ==
  { [BaseBody EXCEPT !.patient = "pX"],
    [BaseBody EXCEPT !.dentist = "dX"],
    [BaseBody EXCEPT !.appointmentDate = 0] }
  \cup { [BaseBody EXCEPT !.startTime = iv[1], !.endTime = iv[2]] :
            iv \in InvertedIntervals }

CreateBodies == NominalBodies \cup OffNominalBodies

Reasons == {"r1"}

Refunds == {50}

UpdateKeys ==
  {"appointmentDate", "startTime", "endTime", "dentist", "status", "symptoms"}

\* the sets of keys an update request sends
KeySets ==
  { {}, {"symptoms"}, {"status"}, {"dentist"}, {"appointmentDate"},
    {"startTime"}, {"endTime"}, {"startTime", "endTime"},
    {"appointmentDate", "dentist"} }

\* the values a request gives to key k when it is among the keys K sent
Given(K, k, values, unset) == IF k \in K THEN values ELSE {unset}

\* req.body of a cancel request: refundAmount may be left out
CancelBodies ==
  UNION { { [keys |-> K, reason |-> r, refundAmount |-> a] :
              r \in Reasons, a \in Given(K, "refundAmount", Refunds, 0) } :
          K \in { {"reason"}, {"reason", "refundAmount"} } }

\* treatments, notes, followUp and cost of a complete request
CompletionData ==
  [treatments |-> << "t1" >>,
   notes      |-> [duringAppointment |-> "n1", afterAppointment |-> "n2",
                   dentistNotes |-> "n3"],
   followUp   |-> [required |-> TRUE, notes |-> "f1"],
   cost       |-> [actual |-> 80]]

\* req.body of a complete request
CompletionBodies ==
  { [keys |-> K, treatments |-> CompletionData.treatments,
     notes |-> CompletionData.notes, followUp |-> CompletionData.followUp,
     cost |-> CompletionData.cost] :
      K \in { {"treatments", "notes", "followUp", "cost"} } }

\* req.body of an update: the keys sent and the value of each; the field
\* notesBeforeAppointment holds the value of the key "notes.beforeAppointment"
UpdateBodiesOf(keySets) ==
  UNION { { [keys |-> K, appointmentDate |-> dt, startTime |-> st,
             endTime |-> et, dentist |-> d, status |-> s, symptoms |-> sy,
             notesBeforeAppointment |-> nb] :
              dt \in Given(K, "appointmentDate", Dates \ {0}, 0),
              st \in Given(K, "startTime", {T0930}, << >>),
              et \in Given(K, "endTime", {T1000}, << >>),
              d  \in Given(K, "dentist", DentistIds \cup {"dX"}, None),
              s  \in Given(K, "status", {"no-show"}, None),
              sy \in Given(K, "symptoms", {"s1"}, None),
              nb \in Given(K, "notes.beforeAppointment", {"b1"}, None) } :
          K \in keySets }

UpdateBodies == UpdateBodiesOf(KeySets)

\* createAppointment without its conflict query
createOutcomeNoConflictQuery(coll, req, body) ==
  IF ~ validateAppointment(body) THEN 400
  ELSE IF body.patient \notin PatientIds THEN 404
  ELSE IF body.dentist \notin DOMAIN dentists THEN 404
  ELSE IF dentists[body.dentist].status # "active" THEN 400
  ELSE IF patientOnly(req) /\ (req.profile = None \/ body.patient # req.profile)
    THEN 403
  ELSE IF body.appointmentDate < Today THEN 400
  ELSE IF ~ isAvailableAt(dentists[body.dentist], body.appointmentDate,
                          body.startTime, body.endTime) THEN 409
  ELSE 201

createOutcome(coll, req, body) ==
  IF ~ validateAppointment(body) THEN 400
  ELSE IF body.patient \notin PatientIds THEN 404
  ELSE IF body.dentist \notin DOMAIN dentists THEN 404
  ELSE IF dentists[body.dentist].status # "active" THEN 400
  ELSE IF patientOnly(req) /\ (req.profile = None \/ body.patient # req.profile)
    THEN 403
  ELSE IF body.appointmentDate < Today THEN 400
  ELSE IF ~ isAvailableAt(dentists[body.dentist], body.appointmentDate,
                          body.startTime, body.endTime) THEN 409
  ELSE IF checkConflict(coll, body.dentist, body.appointmentDate,
                        body.startTime, body.endTime, 0) # 0 THEN 409
  ELSE 201

\* the handler answering one request
createAppointment(req, body) ==
  LET code == createOutcome(appts, req, body)
  IN  /\ appts' = IF code = 201
                    THEN Append(appts, NewAppointment(NextAppointmentId(appts), body))
                    ELSE appts
      /\ Reply("create", IF code = 201 THEN Len(appts) + 1 ELSE 0, code)

CreateAppointment ==
  /\ now < MaxOps
  /\ Len(appts) < MaxAppts
  /\ \E req \in Callers, body \in CreateBodies : createAppointment(req, body)
  /\ UNCHANGED <<dentists, inflight, users, patients>>

\* Appointment.findById
Exists(id) == id \in 1..Len(appts)

\* an ownership check that only asks for a Patient profile
AccessDeniedWithoutProfile(req, appointment) ==
  patientOnly(req) /\ req.profile = None

\* the patientOnly ownership check shared by update, cancel and reschedule
AccessDenied(req, appointment) ==
  patientOnly(req) /\ (req.profile = None \/ appointment.patient # req.profile)

Has(updates, k) == k \in updates.keys

Get(updates, k, old) == IF Has(updates, k) THEN updates[k] ELSE old

AllowedFields == {"symptoms", "notes.beforeAppointment"}

updateOutcome(coll, req, id, updates) ==
  IF ~ Exists(id) THEN 404
  ELSE IF AccessDenied(req, coll[id]) THEN 403
  ELSE IF patientOnly(req) /\ \E k \in updates.keys : k \notin AllowedFields
    THEN 403
  ELSE IF \/ Has(updates, "appointmentDate")
          \/ Has(updates, "startTime")
          \/ Has(updates, "endTime")
    THEN LET newDate      == Get(updates, "appointmentDate", coll[id].appointmentDate)
             newStartTime == Get(updates, "startTime", coll[id].startTime)
             newEndTime   == Get(updates, "endTime", coll[id].endTime)
             dentistId    == Get(updates, "dentist", coll[id].dentist)
         IN  IF /\ Has(updates, "dentist")
                /\ \/ dentistId \notin DOMAIN dentists
                   \/ dentists[dentistId].status # "active"
               THEN 400
             ELSE IF /\ Has(updates, "dentist")
                     /\ ~ isAvailableAt(dentists[dentistId], newDate,
                                        newStartTime, newEndTime)
               THEN 409
             ELSE IF checkConflict(coll, dentistId, newDate, newStartTime,
                                   newEndTime, id) # 0
               THEN 409
             ELSE 200
  ELSE 200

\* findByIdAndUpdate(id, updates): the given paths are set, no save hook runs
ApplyUpdates(appointment, updates) ==
  [k \in DOMAIN appointment |->
     IF Has(updates, k) THEN updates[k]
     ELSE IF k = "notes" /\ Has(updates, "notes.beforeAppointment")
       THEN [appointment.notes EXCEPT
               !.beforeAppointment = updates.notesBeforeAppointment]
     ELSE appointment[k]]

updateAppointment(req, id, updates) ==
  LET code == updateOutcome(appts, req, id, updates)
  IN  /\ appts' = IF code = 200
                    THEN [appts EXCEPT ![id] = ApplyUpdates(appts[id], updates)]
                    ELSE appts
      /\ Reply("update", id, code)

UpdateAppointment ==
  /\ now < MaxOps
  /\ \E req \in Callers, id \in Ids, updates \in UpdateBodies :
       updateAppointment(req, id, updates)
  /\ UNCHANGED <<dentists, inflight, users, patients>>

\* an actor rule that does not know the dentist role
ActorNoDentist(req) ==
  IF patientOnly(req) THEN "patient" ELSE "staff"

\* who cancelled / rescheduled
Actor(req) ==
  IF patientOnly(req) THEN "patient"
  ELSE IF req.role = "dentist" THEN "dentist"
  ELSE "staff"

\* cancelAppointment without its two status guards
cancelOutcomeNoStatusGuard(coll, req, id) ==
  IF ~ Exists(id) THEN 404
  ELSE IF AccessDenied(req, coll[id]) THEN 403
  ELSE 200

cancelOutcome(coll, req, id) ==
  IF ~ Exists(id) THEN 404
  ELSE IF AccessDenied(req, coll[id]) THEN 403
  ELSE IF coll[id].status = "cancelled" THEN 400
  ELSE IF coll[id].status = "completed" THEN 400
  ELSE 200

\* appointmentSchema.methods.cancel, with the duration hook of save
cancel(appointment, reason, cancelledBy, refundAmount) ==
  [appointment EXCEPT
     !.status = "cancelled",
     !.cancellation = [set |-> TRUE, reason |-> reason,
                       cancelledBy |-> cancelledBy, cancelledAt |-> now,
                       refundAmount |-> refundAmount],
     !.duration = Duration(appointment.startTime, appointment.endTime)]

cancelAppointment(req, id, body) ==
  LET code == cancelOutcome(appts, req, id)
      refundAmount == Get(body, "refundAmount", 0)
  IN  /\ appts' = IF code = 200
                    THEN [appts EXCEPT ![id] =
                            cancel(appts[id], body.reason, Actor(req), refundAmount)]
                    ELSE appts
      /\ ReplyTo("cancel", req.role, body, id, code)

CancelAppointment ==
  /\ now < MaxOps
  /\ \E req \in Requesters, id \in Ids, body \in CancelBodies :
       cancelAppointment(req, id, body)
  /\ UNCHANGED <<dentists, inflight, users, patients>>

rescheduleOutcome(coll, req, id, newDate, newStartTime, newEndTime) ==
  IF ~ Exists(id) THEN 404
  ELSE IF AccessDenied(req, coll[id]) THEN 403
  ELSE IF coll[id].status = "cancelled" \/ coll[id].status = "completed" THEN 400
  ELSE IF newDate < Today THEN 400
  ELSE IF coll[id].dentist \notin DOMAIN dentists THEN 500
  ELSE IF ~ isAvailableAt(dentists[coll[id].dentist], newDate, newStartTime,
                          newEndTime) THEN 409
  ELSE IF checkConflict(coll, coll[id].dentist, newDate, newStartTime,
                        newEndTime, id) # 0 THEN 409
  ELSE 200

\* a reschedule method that records the origin after moving the interval
rescheduleThenRecord(appointment, newDate, newStartTime, newEndTime, reason, rescheduledBy) ==
  [appointment EXCEPT
     !.rescheduling = [set |-> TRUE,
                       originalDate |-> newDate,
                       originalTime |-> newStartTime,
                       reason |-> reason, rescheduledBy |-> rescheduledBy,
                       rescheduledAt |-> now],
     !.appointmentDate = newDate,
     !.startTime = newStartTime,
     !.endTime = newEndTime,
     !.status = "rescheduled",
     !.duration = Duration(newStartTime, newEndTime)]

\* a reschedule method that moves the interval and keeps the status
rescheduleKeepingStatus(appointment, newDate, newStartTime, newEndTime, reason, rescheduledBy) ==
  [appointment EXCEPT
     !.rescheduling = [set |-> TRUE,
                       originalDate |-> appointment.appointmentDate,
                       originalTime |-> appointment.startTime,
                       reason |-> reason, rescheduledBy |-> rescheduledBy,
                       rescheduledAt |-> now],
     !.appointmentDate = newDate,
     !.startTime = newStartTime,
     !.endTime = newEndTime,
     !.duration = Duration(newStartTime, newEndTime)]

\* appointmentSchema.methods.reschedule, with the duration hook of save
reschedule(appointment, newDate, newStartTime, newEndTime, reason, rescheduledBy) ==
  [appointment EXCEPT
     !.rescheduling = [set |-> TRUE,
                       originalDate |-> appointment.appointmentDate,
                       originalTime |-> appointment.startTime,
                       reason |-> reason, rescheduledBy |-> rescheduledBy,
                       rescheduledAt |-> now],
     !.appointmentDate = newDate,
     !.startTime = newStartTime,
     !.endTime = newEndTime,
     !.status = "rescheduled",
     !.duration = Duration(newStartTime, newEndTime)]

\* a rescheduleAppointment that writes the new interval before the conflict
\* query answers
RescheduleAppointmentWriteFirst ==
  /\ now < MaxOps
  /\ \E req \in Requesters, id \in Ids, newDate \in Dates,
        iv \in Intervals, reason \in Reasons :
       LET code == rescheduleOutcome(appts, req, id, newDate, iv[1], iv[2])
       IN  /\ appts' = IF code \in {200, 409}
                         THEN [appts EXCEPT ![id] =
                                 reschedule(appts[id], newDate, iv[1], iv[2],
                                            reason, Actor(req))]
                         ELSE appts
           /\ Reply("reschedule", id, code)
  /\ UNCHANGED <<dentists, inflight, users, patients>>

rescheduleAppointment(req, id, newDate, newStartTime, newEndTime, reason) ==
  LET code == rescheduleOutcome(appts, req, id, newDate, newStartTime, newEndTime)
  IN  /\ appts' = IF code = 200
                    THEN [appts EXCEPT ![id] =
                            reschedule(appts[id], newDate, newStartTime,
                                       newEndTime, reason, Actor(req))]
                    ELSE appts
      /\ Reply("reschedule", id, code)

RescheduleAppointment ==
  /\ now < MaxOps
  /\ \E req \in Requesters, id \in Ids, newDate \in Dates,
        iv \in Intervals, reason \in Reasons :
       rescheduleAppointment(req, id, newDate, iv[1], iv[2], reason)
  /\ UNCHANGED <<dentists, inflight, users, patients>>

confirmOutcome(coll, req, id) ==
  IF ~ authorizeStaff(req) THEN 403
  ELSE IF ~ Exists(id) THEN 404
  ELSE 200

confirmAppointment(req, id) ==
  LET code == confirmOutcome(appts, req, id)
  IN  /\ appts' = IF code = 200
                    THEN [appts EXCEPT ![id].status = "confirmed"]
                    ELSE appts
      /\ Reply("confirm", id, code)

ConfirmAppointment ==
  /\ now < MaxOps
  /\ \E req \in Callers, id \in Ids : confirmAppointment(req, id)
  /\ UNCHANGED <<dentists, inflight, users, patients>>

completeOutcome(coll, req, id) ==
  IF ~ authorizeStaff(req) THEN 403
  ELSE IF ~ Exists(id) THEN 404
  ELSE IF coll[id].status = "cancelled" THEN 400
  ELSE 200

\* an updateData that drops the follow-up of the body
updateDataWithoutFollowUp(body) ==
  [set               |-> TRUE,
   treatments        |-> Get(body, "treatments", << >>),
   duringAppointment |-> IF Has(body, "notes") THEN body.notes.duringAppointment ELSE "",
   afterAppointment  |-> IF Has(body, "notes") THEN body.notes.afterAppointment ELSE "",
   dentistNotes      |-> IF Has(body, "notes") THEN body.notes.dentistNotes ELSE "",
   followUp          |-> [required |-> FALSE],
   actualCost        |-> IF Has(body, "cost") THEN body.cost.actual ELSE 0]

\* updateData of completeAppointment: the body's values or their defaults
updateData(body) ==
  [set               |-> TRUE,
   treatments        |-> Get(body, "treatments", << >>),
   duringAppointment |-> IF Has(body, "notes") THEN body.notes.duringAppointment ELSE "",
   afterAppointment  |-> IF Has(body, "notes") THEN body.notes.afterAppointment ELSE "",
   dentistNotes      |-> IF Has(body, "notes") THEN body.notes.dentistNotes ELSE "",
   followUp          |-> Get(body, "followUp", [required |-> FALSE]),
   actualCost        |-> IF Has(body, "cost") THEN body.cost.actual ELSE 0]

completeAppointment(req, id, body) ==
  LET code == completeOutcome(appts, req, id)
  IN  /\ appts' = IF code = 200
                    THEN [appts EXCEPT ![id].status = "completed",
                                       ![id].completion = updateData(body)]
                    ELSE appts
      /\ Reply("complete", id, code)

CompleteAppointment ==
  /\ now < MaxOps
  /\ \E req \in Callers, id \in Ids, body \in CompletionBodies :
       completeAppointment(req, id, body)
  /\ UNCHANGED <<dentists, inflight, users, patients>>

\* authorize('admin')
authorizeAdmin(req) == req.role = "admin"

reminderOutcome(coll, req, id) ==
  IF ~ authorizeStaff(req) THEN 403
  ELSE IF ~ Exists(id) THEN 404
  ELSE IF coll[id].status = "cancelled" \/ coll[id].status = "completed" THEN 400
  ELSE 200

\* sendReminder: appointmentSchema.methods.sendReminder pushes the reminder
\* and saves
sendReminder(req, id, type) ==
  LET code == reminderOutcome(appts, req, id)
  IN  /\ appts' = IF code = 200
                    THEN [appts EXCEPT
                            ![id].reminders =
                               Append(@, [type |-> type, sentAt |-> now,
                                          status |-> "sent"]),
                            ![id].duration =
                               Duration(appts[id].startTime, appts[id].endTime)]
                    ELSE appts
      /\ Reply("reminder", id, code)

deleteOutcome(coll, req, id) ==
  IF ~ authorizeAdmin(req) THEN 403
  ELSE IF ~ Exists(id) THEN 404
  ELSE 200

\* the collection without its id-th document
Remove(coll, id) ==
  [i \in 1..(Len(coll) - 1) |-> IF i < id THEN coll[i] ELSE coll[i + 1]]

\* deleteAppointment: findByIdAndDelete
deleteAppointment(req, id) ==
  LET code == deleteOutcome(appts, req, id)
  IN  /\ appts' = IF code = 200 THEN Remove(appts, id) ELSE appts
      /\ Reply("delete", id, code)

----------------------------------------------------------------------------
(* Two createAppointment requests in flight at once.  A request yields to  *)
(* the other at its awaits: after the conflict query, and after the        *)
(* countDocuments of the appointmentId hook inside Appointment.create.     *)

RaceIntervals == { <<T0900, T0930>>, <<T0930, T1000>>, <<T0900, T1000>> }

RaceBodies ==
  { [patient |-> p, dentist |-> d, appointmentDate |-> 1,
     startTime |-> iv[1], endTime |-> iv[2]] :
      p \in PatientIds, d \in DentistIds, iv \in RaceIntervals }

Staff == [role |-> "staff", profile |-> None]

InFlight(body) == [req |-> Staff, body |-> body, pc |-> "start", seq |-> 0, code |-> 0]

Slots == 1..Len(inflight)

\* up to the conflict query
CreateCheck ==
  /\ \E s \in Slots :
       /\ inflight[s].pc = "start"
       /\ LET code == createOutcome(appts, inflight[s].req, inflight[s].body)
          IN  inflight' = [inflight EXCEPT
                             ![s].pc = IF code = 201 THEN "checked" ELSE "done",
                             ![s].code = IF code = 201 THEN 0 ELSE code]
  /\ UNCHANGED <<appts, dentists, now, last, users, patients>>

\* Appointment.create: the appointmentId hook counts the documents
CreateCount ==
  /\ \E s \in Slots :
       /\ inflight[s].pc = "checked"
       /\ inflight' = [inflight EXCEPT ![s].pc = "counted",
                                       ![s].seq = NextAppointmentId(appts)]
  /\ UNCHANGED <<appts, dentists, now, last, users, patients>>

\* Appointment.create: the insert, refused by the unique index on appointmentId
CreateInsert ==
  /\ \E s \in Slots :
       /\ inflight[s].pc = "counted"
       /\ IF \E i \in 1..Len(appts) : appts[i].appointmentId = inflight[s].seq
            THEN /\ appts' = appts
                 /\ inflight' = [inflight EXCEPT ![s].pc = "done", ![s].code = 500]
            ELSE /\ appts' = Append(appts, NewAppointment(inflight[s].seq,
                                                          inflight[s].body))
                 /\ inflight' = [inflight EXCEPT ![s].pc = "done", ![s].code = 201]
  /\ UNCHANGED <<dentists, now, last, users, patients>>

----------------------------------------------------------------------------
(* Appointment.checkConflict called on a stored collection *)

StoredIntervals == { <<T1000, T1030>>, <<T0900, T0930>>, <<T900u, T930u>> }

CandidateIntervals ==
  { <<T1015, T1045>>, <<T1030, T1100>>, <<T0930, T1000>>, <<T0900, T0930>> }

StoredStatuses == {"scheduled", "cancelled", "no-show"}

\* a stored appointment of dentist d1 on day 1
StoredAppointment(iv, status) ==
  [NewAppointment(0, [patient |-> "p1", dentist |-> "d1", appointmentDate |-> 1,
                      startTime |-> iv[1], endTime |-> iv[2]])
     EXCEPT !.status = status]

RECURSIVE Collections(_)
\* the collections of n stored appointments, appointmentId = position
Collections(n) ==
  IF n = 0 THEN { << >> }
  ELSE { Append(c, [StoredAppointment(iv, st) EXCEPT !.appointmentId = n]) :
           c \in Collections(n - 1), iv \in StoredIntervals, st \in StoredStatuses }

StoredCollections == UNION { Collections(n) : n \in 1..MaxStored }

CheckConflictCall ==
  /\ \E dentistId \in DentistIds, appointmentDate \in Dates \ {0},
        iv \in CandidateIntervals, excludeId \in 0..Len(appts) :
       last' = [op   |-> "checkConflict",
                role |-> None,
                body |-> [dentist |-> dentistId, appointmentDate |-> appointmentDate,
                          startTime |-> iv[1], endTime |-> iv[2],
                          excludeId |-> excludeId],
                id   |-> checkConflict(appts, dentistId, appointmentDate,
                                       iv[1], iv[2], excludeId),
                code |-> 0]
  /\ UNCHANGED <<appts, dentists, now, inflight, users, patients>>

----------------------------------------------------------------------------
(* Dentist.isAvailableAt and Dentist.getAvailableSlots called on a schedule *)

RuleHours == { <<T0900, T1700>>, <<T0900, T0920>>, <<T900u, T1200>> }

RuleDays == {2, 3}

Rules ==
  { [dayOfWeek |-> d, startTime |-> h[1], endTime |-> h[2], isActive |-> a] :
      d \in RuleDays, h \in RuleHours, a \in BOOLEAN }

RECURSIVE RuleLists(_)
\* schedule.regularHours with n entries
RuleLists(n) ==
  IF n = 0 THEN { << >> }
  ELSE { Append(l, r) : l \in RuleLists(n - 1), r \in Rules }

TimeOff(startDate, endDate, isApproved) ==
  [startDate |-> startDate, endDate |-> endDate, isApproved |-> isApproved]

\* schedule.timeOff: none, one entry, or a pending entry before an approved one
TimeOffLists ==
  { << >>, << TimeOff(2, 3, FALSE), TimeOff(2, 2, TRUE) >> }
  \cup { << TimeOff(2, e, a) >> : e \in {2, 3}, a \in BOOLEAN }

\* <<consultationDuration, bufferTime>>: the defaults, and the least of each
Policies == { << 30, 15 >>, << 15, 0 >> }

Schedules ==
  { [status |-> "active", regularHours |-> rh, timeOff |-> off,
     consultationDuration |-> pol[1], bufferTime |-> pol[2]] :
      rh \in UNION { RuleLists(n) : n \in 1..MaxRules }, off \in TimeOffLists,
      pol \in Policies }

CallDates == {1, 2, 3}

AvailabilityIntervals ==
  { <<T0900, T0930>>, <<T0010u, T1000>>, <<T0930, T0900>>, <<T1645, T1715>> }

IsAvailableAtCall ==
  /\ \E date \in CallDates, iv \in AvailabilityIntervals :
       last' = [op     |-> "isAvailableAt",
                role   |-> None,
                body   |-> [date |-> date, startTime |-> iv[1], endTime |-> iv[2]],
                id     |-> 0,
                code   |-> 0,
                result |-> isAvailableAt(dentists["d1"], date, iv[1], iv[2])]
  /\ UNCHANGED <<appts, dentists, now, inflight, users, patients>>

GetAvailableSlotsCall ==
  /\ \E date \in CallDates :
       last' = [op     |-> "getAvailableSlots",
                role   |-> None,
                body   |-> [date |-> date],
                id     |-> 0,
                code   |-> 0,
                result |-> getAvailableSlots(dentists["d1"], date)]
  /\ UNCHANGED <<appts, dentists, now, inflight, users, patients>>

----------------------------------------------------------------------------
(* The appointment routes answering one request of a user of any role on a *)
(* stored collection.  A document is named by its position at the time of  *)
(* the request.                                                            *)

\* req.user: the four roles, and a patient-role user without Patient profile
AnyRequester ==
  Requesters \cup { [role |-> "patient", profile |-> None],
                    [role |-> "admin",   profile |-> None] }

\* dentist and interval of the n-th stored appointment, all on day 1
RouteSlot(n) ==
  CASE n = 1 -> << "d1", T0900, T0930 >>
    [] n = 2 -> << "d2", T0900, T0930 >>
    [] OTHER -> << "d1", T0930, T1000 >>

RouteStatuses == {"scheduled", "cancelled"}

\* the n-th stored appointment; the second one, unless cancelled, was
\* moved here from day 0 before
RouteAppointment(n, p, status) ==
  LET created == NewAppointment(n, [patient |-> p, dentist |-> RouteSlot(n)[1],
                                    appointmentDate |-> 1,
                                    startTime |-> RouteSlot(n)[2],
                                    endTime |-> RouteSlot(n)[3]])
  IN  IF n = 2 /\ status = "scheduled"
        THEN [created EXCEPT
                !.status = "rescheduled",
                !.rescheduling = [set |-> TRUE, originalDate |-> 0,
                                  originalTime |-> T1000, reason |-> "r0",
                                  rescheduledBy |-> "staff", rescheduledAt |-> 0]]
        ELSE [created EXCEPT !.status = status]

RECURSIVE RouteCollections(_)
\* the collections of n stored appointments
RouteCollections(n) ==
  IF n = 0 THEN { << >> }
  ELSE { Append(c, RouteAppointment(n, p, st)) :
           c \in RouteCollections(n - 1), p \in PatientIds, st \in RouteStatuses }

DentistStatuses == {"active", "inactive", "on-leave", "suspended"}

\* the seeded dentists with d1 in any status, or with d1 deleted
RouteDentists ==
  { [SeedDentists EXCEPT !["d1"].status = st] : st \in DentistStatuses }
  \cup { [d \in {"d2"} |-> SeedDentists[d]] }

\* a request for another patient that the validation refuses
RouteCreateBodies ==
  CreateBodies \cup { [BaseBody EXCEPT !.patient = "p2", !.appointmentDate = 0] }

RouteUpdateBodies ==
  UpdateBodiesOf(KeySets \cup { {"notes.beforeAppointment"},
                                {"symptoms", "notes.beforeAppointment"} })

ReminderTypes == {"email"}

RouteCreate ==
  /\ now < MaxOps
  /\ \E req \in AnyRequester, body \in RouteCreateBodies : createAppointment(req, body)
  /\ UNCHANGED <<dentists, inflight, users, patients>>

RouteUpdate ==
  /\ now < MaxOps
  /\ \E req \in AnyRequester, id \in Ids, updates \in RouteUpdateBodies :
       updateAppointment(req, id, updates)
  /\ UNCHANGED <<dentists, inflight, users, patients>>

RouteCancel ==
  /\ now < MaxOps
  /\ \E req \in AnyRequester, id \in Ids, body \in CancelBodies :
       cancelAppointment(req, id, body)
  /\ UNCHANGED <<dentists, inflight, users, patients>>

RouteReschedule ==
  /\ now < MaxOps
  /\ \E req \in AnyRequester, id \in Ids, newDate \in Dates,
        iv \in Intervals, reason \in Reasons :
       rescheduleAppointment(req, id, newDate, iv[1], iv[2], reason)
  /\ UNCHANGED <<dentists, inflight, users, patients>>

RouteConfirm ==
  /\ now < MaxOps
  /\ \E req \in AnyRequester, id \in Ids : confirmAppointment(req, id)
  /\ UNCHANGED <<dentists, inflight, users, patients>>

RouteComplete ==
  /\ now < MaxOps
  /\ \E req \in AnyRequester, id \in Ids, body \in CompletionBodies :
       completeAppointment(req, id, body)
  /\ UNCHANGED <<dentists, inflight, users, patients>>

RouteReminder ==
  /\ now < MaxOps
  /\ \E req \in AnyRequester, id \in Ids, type \in ReminderTypes :
       sendReminder(req, id, type)
  /\ UNCHANGED <<dentists, inflight, users, patients>>

RouteDelete ==
  /\ now < MaxOps
  /\ \E req \in AnyRequester, id \in Ids : deleteAppointment(req, id)
  /\ UNCHANGED <<dentists, inflight, users, patients>>

----------------------------------------------------------------------------
(* The list queries: getAppointments and getAppointmentsByDateRange over   *)
(* a stored collection.  A result is the sequence of the positions of the  *)
(* documents returned.  A filter field that is None constrains nothing.    *)

\* req.query of GET /appointments
ListQueries ==
  UNION { { [keys |-> K, patient |-> p, dentist |-> d] :
              p \in Given(K, "patient", PatientIds, None),
              d \in Given(K, "dentist", {"d1"}, None) } :
          K \in SUBSET {"patient", "dentist"} }

\* req.query of GET /appointments/date-range
DateRangeQueries ==
  UNION { { [keys |-> K, startDate |-> sd, endDate |-> ed, patientId |-> p,
             dentistId |-> None] :
              sd \in Given(K, "startDate", {1}, 0),
              ed \in Given(K, "endDate", {0, 2}, 0),
              p  \in Given(K, "patientId", PatientIds, None) } :
          K \in { {"startDate"}, {"startDate", "endDate"},
                  {"startDate", "endDate", "patientId"} } }

\* getPaginationParams without page and limit in the query
DefaultLimit == 10

NoFilter == [patient |-> None, dentist |-> None, from |-> 0, to |-> 0, dated |-> FALSE]

\* applyFilters: an exact filter of the query replaces the base filter's
applyFilters(baseFilter, query, allowedFilters) ==
  [f \in DOMAIN baseFilter |->
     IF f \in allowedFilters /\ Has(query, f) THEN query[f] ELSE baseFilter[f]]

Matches(filters, appointment) ==
  /\ filters.patient # None => appointment.patient = filters.patient
  /\ filters.dentist # None => appointment.dentist = filters.dentist
  /\ filters.dated => /\ appointment.appointmentDate >= filters.from
                      /\ appointment.appointmentDate <= filters.to

RECURSIVE Find(_, _, _)
\* Model.find(filter): the positions of the matching documents from i on
Find(coll, filters, i) ==
  IF i > Len(coll) THEN << >>
  ELSE (IF Matches(filters, coll[i]) THEN << i >> ELSE << >>)
         \o Find(coll, filters, i + 1)

\* applyPagination: the first page
applyPagination(coll, filters) ==
  LET items == Find(coll, filters, 1)
  IN  SubSeq(items, 1, IF Len(items) < DefaultLimit THEN Len(items) ELSE DefaultLimit)

\* getAppointments
getAppointments(coll, req, query) ==
  IF patientOnly(req) /\ req.profile = None THEN << >>
  ELSE LET baseFilter ==
             [NoFilter EXCEPT
                !.patient = IF patientOnly(req) THEN req.profile ELSE None,
                !.dentist = IF req.role = "dentist" /\ ~ patientOnly(req)
                              THEN req.profile ELSE None]
       IN  applyPagination(coll, applyFilters(baseFilter, query, {"dentist", "patient"}))

\* .sort({ appointmentDate: 1, startTime: 1 })
SortsBefore(coll, i, j) ==
  \/ coll[i].appointmentDate < coll[j].appointmentDate
  \/ /\ coll[i].appointmentDate = coll[j].appointmentDate
     /\ \/ StrLess(coll[i].startTime, coll[j].startTime)
        \/ coll[i].startTime = coll[j].startTime /\ i < j

RECURSIVE Sorted(_, _)
Sorted(coll, S) ==
  IF S = {} THEN << >>
  ELSE LET first == CHOOSE i \in S : \A j \in S \ {i} : SortsBefore(coll, i, j)
       IN  << first >> \o Sorted(coll, S \ {first})

\* validateDateRange and the handler's own test
dateRangeOutcome(query) ==
  IF Has(query, "startDate") /\ Has(query, "endDate")
       /\ query.endDate < query.startDate THEN 400
  ELSE IF ~ Has(query, "startDate") \/ ~ Has(query, "endDate") THEN 400
  ELSE 200

\* getAppointmentsByDateRange
getAppointmentsByDateRange(coll, req, query) ==
  LET filters == [NoFilter EXCEPT
                    !.dated = TRUE,
                    !.from = query.startDate,
                    !.to = query.endDate,
                    !.dentist = query.dentistId,
                    !.patient = IF patientOnly(req) /\ req.profile # None
                                  THEN req.profile
                                  ELSE query.patientId]
      items == Find(coll, filters, 1)
  IN  Sorted(coll, {items[k] : k \in 1..Len(items)})

GetAppointmentsCall ==
  /\ \E req \in AnyRequester, query \in ListQueries :
       last' = [op     |-> "getAppointments",
                role   |-> req.role,
                body   |-> [profile |-> req.profile, query |-> query],
                id     |-> 0,
                code   |-> 200,
                result |-> getAppointments(appts, req, query)]
  /\ UNCHANGED <<appts, dentists, now, inflight, users, patients>>

GetAppointmentsByDateRangeCall ==
  /\ \E req \in AnyRequester, query \in DateRangeQueries :
       LET code == dateRangeOutcome(query)
       IN  last' = [op     |-> "getAppointmentsByDateRange",
                    role   |-> req.role,
                    body   |-> [profile |-> req.profile, query |-> query],
                    id     |-> 0,
                    code   |-> code,
                    result |-> IF code = 200
                                 THEN getAppointmentsByDateRange(appts, req, query)
                                 ELSE << >>]
  /\ UNCHANGED <<appts, dentists, now, inflight, users, patients>>

----------------------------------------------------------------------------
(* Time off of dentist d1: addTimeOff and updateTimeOffStatus, and the     *)
(* availability they change.  A time-off entry is named by its position.   *)

MaxTimeOff == 2

\* <<startDate, endDate>> of a time-off request
TimeOffDates == { << 2, 3 >>, << 2, 4 >>, << 3, 2 >>, << 1, 2 >> }

\* req.body of addTimeOff: isApproved may be sent along
TimeOffBodies ==
  UNION { { [keys |-> K, startDate |-> dd[1], endDate |-> dd[2],
             isApproved |-> a] :
              dd \in TimeOffDates, a \in Given(K, "isApproved", BOOLEAN, FALSE) } :
          K \in { {"startDate", "endDate", "reason"},
                  {"startDate", "endDate", "reason", "isApproved"} } }

\* a schedule with hours on days 2 and 3 and no time off
WorkingSchedule ==
  [status |-> "active",
   regularHours |-> << Hours(2, TRUE), Hours(3, TRUE) >>,
   timeOff |-> << >>,
   consultationDuration |-> 30,
   bufferTime |-> 15]

\* requireStaff
requireStaff(req) == req.role \in {"dentist", "admin", "staff"}

addTimeOffOutcome(coll, id, timeOffData) ==
  IF id \notin DOMAIN coll THEN 404
  ELSE IF timeOffData.startDate >= timeOffData.endDate THEN 400
  ELSE IF timeOffData.startDate <= Today THEN 400
  ELSE 200

\* addTimeOff: timeOff.push(req.body), isApproved false unless the body
\* gives it
addTimeOff(req, id, timeOffData) ==
  LET code == addTimeOffOutcome(dentists, id, timeOffData)
  IN  /\ dentists' = IF code = 200
                       THEN [dentists EXCEPT ![id].timeOff =
                               Append(@, TimeOff(timeOffData.startDate,
                                                 timeOffData.endDate,
                                                 Get(timeOffData, "isApproved", FALSE)))]
                       ELSE dentists
      /\ last' = [op |-> "addTimeOff", role |-> req.role, body |-> timeOffData,
                  id |-> 0, code |-> code]

AddTimeOff ==
  /\ Len(dentists["d1"].timeOff) < MaxTimeOff
  /\ \E req \in AnyRequester, id \in {"d1", "dX"}, timeOffData \in TimeOffBodies :
       addTimeOff(req, id, timeOffData)
  /\ UNCHANGED <<appts, now, inflight, users, patients>>

updateTimeOffStatusOutcome(coll, req, id, timeOffId) ==
  IF ~ requireStaff(req) THEN 403
  ELSE IF id \notin DOMAIN coll THEN 404
  ELSE IF timeOffId \notin 1..Len(coll[id].timeOff) THEN 404
  ELSE 200

updateTimeOffStatus(req, id, timeOffId, isApproved) ==
  LET code == updateTimeOffStatusOutcome(dentists, req, id, timeOffId)
  IN  /\ dentists' = IF code = 200
                       THEN [dentists EXCEPT
                               ![id].timeOff[timeOffId].isApproved = isApproved]
                       ELSE dentists
      /\ last' = [op |-> "updateTimeOffStatus", role |-> req.role,
                  body |-> [isApproved |-> isApproved], id |-> timeOffId,
                  code |-> code]

UpdateTimeOffStatus ==
  /\ \E req \in AnyRequester, id \in {"d1", "dX"}, timeOffId \in 1..MaxTimeOff,
        isApproved \in BOOLEAN :
       updateTimeOffStatus(req, id, timeOffId, isApproved)
  /\ UNCHANGED <<appts, now, inflight, users, patients>>

----------------------------------------------------------------------------
(* User accounts: login, the protect middleware, deactivateAccount and     *)
(* activateAccount.  The email of a user stands for its _id.               *)

UserIds == {"u1", "u2", "u3", "a1"}

\* the seeded accounts: patients and the admin, all active
SeedUsers ==
  [u \in UserIds |->
     [role |-> IF u = "a1" THEN "admin" ELSE "patient", isActive |-> TRUE]]

\* pre-save hook: `PAT${String(count + 1).padStart(6, '0')}`
PatientIdOf(count) ==
  << "P", "A", "T" >> \o padStart(toString(count + 1), 6, "0")

\* the Patient profiles of u1 and u2, created in this order
SeedPatients ==
  { [userId |-> "u1", patientId |-> PatientIdOf(0)],
    [userId |-> "u2", patientId |-> PatientIdOf(1)] }

Passwords == {"right", "wrong"}

\* user.matchPassword(password)
matchPassword(user, password) == password = "right"

\* req.body of a login: the email of an account or of nobody
LoginBodies ==
  { [email |-> e, password |-> pw] : e \in UserIds \cup {"uX"}, pw \in Passwords }

\* the Authorization header: no token, or a token that names a user and
\* verifies or not
Tokens ==
  { [present |-> FALSE, valid |-> FALSE, userId |-> None] }
  \cup { [present |-> TRUE, valid |-> v, userId |-> u] :
           v \in BOOLEAN, u \in UserIds \cup {"uX"} }

loginOutcome(coll, body) ==
  IF body.email \notin DOMAIN coll THEN 401
  ELSE IF ~ coll[body.email].isActive THEN 401
  ELSE IF ~ matchPassword(coll[body.email], body.password) THEN 401
  ELSE 200

\* a protect that does not look at isActive
protectAnyAccount(coll, token) ==
  IF ~ token.present THEN 401
  ELSE IF ~ token.valid THEN 401
  ELSE IF token.userId \notin DOMAIN coll THEN 401
  ELSE 0

\* protect: 401, or 0 when it calls next()
protect(coll, token) ==
  IF ~ token.present THEN 401
  ELSE IF ~ token.valid THEN 401
  ELSE IF token.userId \notin DOMAIN coll THEN 401
  ELSE IF ~ coll[token.userId].isActive THEN 401
  ELSE 0

\* authorize(...roles), after protect has set req.user
authorize(roles, user) == IF user.role \in roles THEN 0 ELSE 403

Login ==
  /\ now < MaxOps
  /\ \E body \in LoginBodies :
       ReplyTo("login", None, body, 0, loginOutcome(users, body))
  /\ UNCHANGED <<appts, dentists, inflight, users, patients>>

\* GET /profile: any route behind protect that changes no account
GetProfile ==
  /\ now < MaxOps
  /\ \E token \in Tokens :
       LET denied == protect(users, token)
       IN  ReplyTo("profile", None, [token |-> token], 0,
                   IF denied # 0 THEN denied ELSE 200)
  /\ UNCHANGED <<appts, dentists, inflight, users, patients>>

DeactivateAccount ==
  /\ now < MaxOps
  /\ \E token \in Tokens :
       LET denied == protect(users, token)
       IN  /\ users' = IF denied # 0 THEN users
                        ELSE [users EXCEPT ![token.userId].isActive = FALSE]
           /\ ReplyTo("deactivate", None, [token |-> token], 0,
                      IF denied # 0 THEN denied ELSE 200)
  /\ UNCHANGED <<appts, dentists, inflight, patients>>

activateOutcome(coll, token, userId) ==
  IF protect(coll, token) # 0 THEN protect(coll, token)
  ELSE IF authorize({"admin"}, coll[token.userId]) # 0 THEN 403
  ELSE IF userId \notin DOMAIN coll THEN 404
  ELSE 200

ActivateAccount ==
  /\ now < MaxOps
  /\ \E token \in Tokens, userId \in UserIds \cup {"uX"} :
       LET code == activateOutcome(users, token, userId)
       IN  /\ users' = IF code = 200
                        THEN [users EXCEPT ![userId].isActive = TRUE]
                        ELSE users
           /\ ReplyTo("activate", None, [token |-> token, userId |-> userId],
                      0, code)
  /\ UNCHANGED <<appts, dentists, inflight, patients>>

----------------------------------------------------------------------------
(* Patient profiles: createPatient and deletePatient.  A profile is named  *)
(* by the user it belongs to (userId is unique in the collection).         *)

ProfileOf(coll, userId) == {p \in coll : p.userId = userId}

\* the checks of createPatient, then Patient.create: the hook gives the
\* patientId and the unique index refuses one that is already stored
createPatientOutcome(coll, userId) ==
  IF userId \notin DOMAIN users THEN 404
  ELSE IF users[userId].role # "patient" THEN 400
  ELSE IF ProfileOf(coll, userId) # {} THEN 409
  ELSE IF \E p \in coll : p.patientId = PatientIdOf(Cardinality(coll)) THEN 500
  ELSE 201

CreatePatient ==
  /\ now < MaxOps
  /\ \E userId \in UserIds \cup {"uX"} :
       LET code == createPatientOutcome(patients, userId)
       IN  /\ patients' = IF code = 201
                           THEN patients \cup
                                  { [userId |-> userId,
                                     patientId |-> PatientIdOf(Cardinality(patients))] }
                           ELSE patients
           /\ ReplyTo("createPatient", None, [userId |-> userId], 0, code)
  /\ UNCHANGED <<appts, dentists, inflight, users>>

deletePatientOutcome(coll, user, userId) ==
  IF authorize({"admin"}, user) # 0 THEN 403
  ELSE IF ProfileOf(coll, userId) = {} THEN 404
  ELSE 200

\* deletePatient behind authorize('admin'): findByIdAndDelete
DeletePatient ==
  /\ now < MaxOps
  /\ \E u \in UserIds, userId \in UserIds :
       LET code == deletePatientOutcome(patients, users[u], userId)
       IN  /\ patients' = IF code = 200
                           THEN patients \ ProfileOf(patients, userId)
                           ELSE patients
           /\ ReplyTo("deletePatient", users[u].role, [userId |-> userId], 0, code)
  /\ UNCHANGED <<appts, dentists, inflight, users>>

----------------------------------------------------------------------------

Init ==
  /\ appts = << >>
  /\ dentists = SeedDentists
  /\ now = 0
  /\ last = [op |-> "none", role |-> None, body |-> NoRecord, id |-> 0, code |-> 0]
  /\ inflight = << >>
  /\ users = SeedUsers
  /\ patients = SeedPatients

Next ==
  \/ CreateAppointment
  \/ UpdateAppointment
  \/ CancelAppointment
  \/ RescheduleAppointment
  \/ ConfirmAppointment
  \/ CompleteAppointment

Spec == Init /\ [][Next]_vars

InitRace ==
  /\ appts = << >>
  /\ dentists = SeedDentists
  /\ now = 0
  /\ last = [op |-> "none", role |-> None, body |-> NoRecord, id |-> 0, code |-> 0]
  /\ \E b1 \in RaceBodies, b2 \in RaceBodies :
       inflight = << InFlight(b1), InFlight(b2) >>
  /\ users = SeedUsers
  /\ patients = SeedPatients

NextRace ==
  \/ CreateCheck
  \/ CreateCount
  \/ CreateInsert

SpecRace == InitRace /\ [][NextRace]_vars

InitConflict ==
  /\ appts \in StoredCollections
  /\ dentists = SeedDentists
  /\ now = 0
  /\ last = [op |-> "none", role |-> None, body |-> NoRecord, id |-> 0, code |-> 0]
  /\ inflight = << >>
  /\ users = SeedUsers
  /\ patients = SeedPatients

NextConflict == CheckConflictCall

SpecConflict == InitConflict /\ [][NextConflict]_vars

InitSchedule ==
  /\ appts = << >>
  /\ dentists \in { [d \in {"d1"} |-> sch] : sch \in Schedules }
  /\ now = 0
  /\ last = [op |-> "none", role |-> None, body |-> NoRecord, id |-> 0, code |-> 0]
  /\ inflight = << >>
  /\ users = SeedUsers
  /\ patients = SeedPatients

NextSchedule ==
  \/ IsAvailableAtCall
  \/ GetAvailableSlotsCall

SpecSchedule == InitSchedule /\ [][NextSchedule]_vars

\* the last request before the bound on the number of requests
InitRoutes ==
  /\ appts \in UNION { RouteCollections(n) : n \in 0..MaxAppts }
  /\ dentists \in RouteDentists
  /\ now = MaxOps - 1
  /\ last = [op |-> "none", role |-> None, body |-> NoRecord, id |-> 0, code |-> 0]
  /\ inflight = << >>
  /\ users = SeedUsers
  /\ patients = SeedPatients

NextRoutes ==
  \/ RouteCreate
  \/ RouteUpdate
  \/ RouteCancel
  \/ RouteReschedule
  \/ RouteConfirm
  \/ RouteComplete
  \/ RouteReminder
  \/ RouteDelete

SpecRoutes == InitRoutes /\ [][NextRoutes]_vars

InitAuth ==
  /\ appts = << >>
  /\ dentists = SeedDentists
  /\ now = 0
  /\ last = [op |-> "none", role |-> None, body |-> NoRecord, id |-> 0, code |-> 0]
  /\ inflight = << >>
  /\ users = SeedUsers
  /\ patients = SeedPatients

NextAuth ==
  \/ Login
  \/ GetProfile
  \/ DeactivateAccount
  \/ ActivateAccount

SpecAuth == InitAuth /\ [][NextAuth]_vars

InitQuery ==
  /\ appts \in UNION { RouteCollections(n) : n \in 0..MaxAppts }
  /\ dentists = SeedDentists
  /\ now = 0
  /\ last = [op |-> "none", role |-> None, body |-> NoRecord, id |-> 0, code |-> 0]
  /\ inflight = << >>
  /\ users = SeedUsers
  /\ patients = SeedPatients

NextQuery ==
  \/ GetAppointmentsCall
  \/ GetAppointmentsByDateRangeCall

SpecQuery == InitQuery /\ [][NextQuery]_vars

InitTimeOff ==
  /\ appts = << >>
  /\ dentists = [d \in {"d1"} |-> WorkingSchedule]
  /\ now = 0
  /\ last = [op |-> "none", role |-> None, body |-> NoRecord, id |-> 0, code |-> 0]
  /\ inflight = << >>
  /\ users = SeedUsers
  /\ patients = SeedPatients

NextTimeOff ==
  \/ AddTimeOff
  \/ UpdateTimeOffStatus
  \/ IsAvailableAtCall
  \/ GetAvailableSlotsCall

SpecTimeOff == InitTimeOff /\ [][NextTimeOff]_vars

NextPatients ==
  \/ CreatePatient
  \/ DeletePatient

SpecPatients == InitAuth /\ [][NextPatients]_vars

----------------------------------------------------------------------------
(* Vocabulary of the properties *)

Active(a) == a.status \notin {"cancelled", "no-show"}

\* half-open intervals of times of day
TimeOverlap(s1, e1, s2, e2) ==
  ToMinutes(s1) < ToMinutes(e2) /\ ToMinutes(e1) > ToMinutes(s2)

SameDay(a, b) == a.dentist = b.dentist /\ a.appointmentDate = b.appointmentDate

Accepted == last'.code \in {200, 201}

Rejected == last'.code \notin {0, 200, 201}

\* the request just answered was `op` on a stored appointment
On(op) == last'.op = op /\ now' = now + 1 /\ last'.id \in 1..Len(appts)

\* position of the first active weekly entry for the day of the date, 0 if none
MatchedRule(dentist, date) ==
  LET rh == dentist.regularHours
      S  == {i \in 1..Len(rh) : rh[i].dayOfWeek = getDay(date) /\ rh[i].isActive}
  IN  IF S = {} THEN 0 ELSE CHOOSE i \in S : \A j \in S : i <= j

\* an approved time-off entry covers the date, both ends included
Covered(dentist, date) ==
  \E i \in 1..Len(dentist.timeOff) :
     /\ dentist.timeOff[i].isApproved
     /\ dentist.timeOff[i].startDate <= date
     /\ date <= dentist.timeOff[i].endDate

IsApproved(entry) == entry.isApproved

\* the schedule without its pending time-off entries
WithoutPending(dentist) ==
  [dentist EXCEPT !.timeOff = SelectSeq(dentist.timeOff, IsApproved)]

\* the schedule reduced to the i-th weekly entry
OnlyRule(dentist, i) ==
  [dentist EXCEPT !.regularHours = << dentist.regularHours[i] >>]

\* two digits, a colon, two digits
ZeroPadded(t) ==
  /\ Len(t) = 5
  /\ t[3] = ":"
  /\ \A k \in {1, 2, 4, 5} : t[k] # ":"
  /\ MatchesTimePattern(t)

OthersUnchanged(id) ==
  /\ Len(appts') = Len(appts)
  /\ \A j \in 1..Len(appts) : j # id => appts'[j] = appts[j]

----------------------------------------------------------------------------
(* C1: no two active appointments of one dentist on one date overlap.      *)
(* Stated as in the claim; the handlers do not maintain it.                *)

C1_NoDoubleBooking ==
  \A i \in 1..Len(appts), j \in 1..Len(appts) :
     (i < j /\ SameDay(appts[i], appts[j]) /\ Active(appts[i]) /\ Active(appts[j]))
       => ~ TimeOverlap(appts[i].startTime, appts[i].endTime,
                        appts[j].startTime, appts[j].endTime)

(* C2: of two concurrent createAppointment requests for the same dentist   *)
(* and date with overlapping intervals, at most one persists an            *)
(* appointment and the other is answered with an error.  Stated as in the  *)
(* claim, any error answer counting as the rejection; the two conflict     *)
(* queries can both run before either insert, and then both persist.       *)

C2_RaceClosed ==
  (/\ Len(inflight) = 2
   /\ inflight[1].pc = "done" /\ inflight[2].pc = "done"
   /\ SameDay(inflight[1].body, inflight[2].body)
   /\ TimeOverlap(inflight[1].body.startTime, inflight[1].body.endTime,
                  inflight[2].body.startTime, inflight[2].body.endTime))
    => /\ Len(appts) <= 1
       /\ inflight[1].code # 201 \/ inflight[2].code # 201

(* C3 as stated: a successful reschedule keeps the number of appointments, *)
(* overwrites the interval of the same record and leaves it scheduled.     *)

RescheduledInPlace(id) ==
  /\ OthersUnchanged(id)
  /\ appts'[id].appointmentId = appts[id].appointmentId
  /\ appts'[id].patient = appts[id].patient
  /\ appts'[id].dentist = appts[id].dentist
  /\ appts'[id].rescheduling.set
  /\ appts'[id].rescheduling.originalDate = appts[id].appointmentDate
  /\ appts'[id].rescheduling.originalTime = appts[id].startTime

C3_RescheduleLeavesScheduled ==
  [][(On("reschedule") /\ Accepted)
       => RescheduledInPlace(last'.id) /\ appts'[last'.id].status = "scheduled"]_vars

(* C3 amended: a successful reschedule keeps the number of appointments,   *)
(* overwrites the interval of the same record, whose previous date and     *)
(* start time it records, and leaves it with status rescheduled.           *)

C3_RescheduleInPlace ==
  [][(On("reschedule") /\ Accepted)
       => RescheduledInPlace(last'.id) /\ appts'[last'.id].status = "rescheduled"]_vars

C3_Witness ==
  /\ last.op = "reschedule" /\ last.code = 200
  /\ appts[last.id].status = "rescheduled"
  /\ appts[last.id].rescheduling.set
  /\ \/ appts[last.id].rescheduling.originalDate # appts[last.id].appointmentDate
     \/ appts[last.id].rescheduling.originalTime # appts[last.id].startTime

(* C4: completed and cancelled are terminal: no request changes the status *)
(* of an appointment that is completed or cancelled.  Stated as in the     *)
(* claim; confirmAppointment and updateAppointment break it.               *)

C4_TerminalStatuses ==
  [][\A i \in 1..Len(appts) :
       appts[i].status \in {"completed", "cancelled"}
         => appts'[i].status = appts[i].status]_vars

(* C5: confirmAppointment changes the status only from scheduled to        *)
(* confirmed and leaves date, times and dentist alone.  Stated as in the   *)
(* claim; the handler sets confirmed whatever the current status is.       *)

C5_ConfirmOnlyScheduled ==
  [][(On("confirm") /\ Accepted)
       => /\ appts[last'.id].status = "scheduled"
          /\ appts'[last'.id].status = "confirmed"
          /\ appts'[last'.id].appointmentDate = appts[last'.id].appointmentDate
          /\ appts'[last'.id].startTime = appts[last'.id].startTime
          /\ appts'[last'.id].endTime = appts[last'.id].endTime
          /\ appts'[last'.id].dentist = appts[last'.id].dentist]_vars

(* C6: cancelAppointment on a cancelled or completed appointment is        *)
(* rejected and changes nothing: status and cancellation record stay.      *)

C6_CancelRejectedWhenTerminal ==
  [][(On("cancel") /\ appts[last'.id].status \in {"cancelled", "completed"})
       => Rejected /\ appts' = appts]_vars

C6_Witness ==
  /\ last.op = "cancel" /\ last.code = 400
  /\ last.id \in 1..Len(appts)
  /\ appts[last.id].status = "cancelled"
  /\ appts[last.id].cancellation.set
  /\ appts[last.id].cancellation.cancelledAt < now - 1

(* C7: createAppointment persists an appointment only when isAvailableAt   *)
(* holds for its dentist, date and interval and checkConflict finds no     *)
(* appointment; what it persists has status scheduled.                     *)

C7_CreateOnlyWhenFree ==
  [][(last'.op = "create" /\ now' = now + 1 /\ appts' # appts)
       => /\ Accepted
          /\ Len(appts') = Len(appts) + 1
          /\ SubSeq(appts', 1, Len(appts)) = appts
          /\ LET a == appts'[Len(appts')]
             IN  /\ a.status = "scheduled"
                 /\ a.dentist \in DOMAIN dentists
                 /\ isAvailableAt(dentists[a.dentist], a.appointmentDate,
                                  a.startTime, a.endTime)
                 /\ checkConflict(appts, a.dentist, a.appointmentDate,
                                  a.startTime, a.endTime, 0) = 0]_vars

C7_Witness ==
  /\ last.op = "create" /\ last.code = 201 /\ last.id = 2
  /\ Len(appts) = 2
  /\ SameDay(appts[1], appts[2])
  /\ Active(appts[1])

(* C8: rescheduleAppointment succeeds only if the status is neither        *)
(* cancelled nor completed, isAvailableAt holds for the new date and       *)
(* interval, and no other active appointment of the dentist on the new     *)
(* date overlaps the new interval.  Stated as in the claim; checkConflict  *)
(* compares the time strings, so an overlap in time of day can pass.       *)

C8_RescheduleOnlyWhenFree ==
  [][(On("reschedule") /\ Accepted)
       => LET id == last'.id
              b  == appts'[id]
          IN  /\ appts[id].status \notin {"cancelled", "completed"}
              /\ isAvailableAt(dentists[b.dentist], b.appointmentDate,
                               b.startTime, b.endTime)
              /\ \A j \in 1..Len(appts) :
                   (j # id /\ Active(appts[j]) /\ SameDay(appts[j], b))
                     => ~ TimeOverlap(appts[j].startTime, appts[j].endTime,
                                      b.startTime, b.endTime)]_vars

(* C9: an accepted updateAppointment that changes the date, a time or the  *)
(* dentist has passed the availability check and the conflict check on the *)
(* resulting dentist, date and interval.  Stated as in the claim; the      *)
(* handler checks availability only when the body names a dentist, and     *)
(* checks nothing when the body names only a dentist.                      *)

C9_UpdateRevalidates ==
  [][(/\ On("update") /\ Accepted
      /\ \/ appts'[last'.id].appointmentDate # appts[last'.id].appointmentDate
         \/ appts'[last'.id].startTime # appts[last'.id].startTime
         \/ appts'[last'.id].endTime # appts[last'.id].endTime
         \/ appts'[last'.id].dentist # appts[last'.id].dentist)
       => LET b == appts'[last'.id]
          IN  /\ b.dentist \in DOMAIN dentists
              /\ isAvailableAt(dentists[b.dentist], b.appointmentDate,
                               b.startTime, b.endTime)
              /\ checkConflict(appts, b.dentist, b.appointmentDate,
                               b.startTime, b.endTime, last'.id) = 0]_vars

(* C10: a rejected create, update, reschedule, cancel or complete request  *)
(* leaves the stored appointments exactly as they were.                    *)

C10_RejectionChangesNothing ==
  [][(/\ last'.op \in {"create", "update", "reschedule", "cancel", "complete"}
      /\ now' = now + 1
      /\ Rejected)
       => appts' = appts]_vars

C10_Witness ==
  /\ last.op = "reschedule" /\ last.code = 409
  /\ Len(appts) = 2
  /\ appts[last.id].status = "scheduled"
  /\ ~ appts[last.id].rescheduling.set

(* C11: completeAppointment, once past the role check, is rejected with     *)
(* the appointment unchanged when the status is cancelled; from every      *)
(* other status it sets status completed and records the treatments, the   *)
(* three notes, the follow-up and the actual cost of the request.          *)

C11_CompleteUnlessCancelled ==
  [][(On("complete") /\ last'.code # 403)
       => IF appts[last'.id].status = "cancelled"
            THEN Rejected /\ appts' = appts
            ELSE /\ Accepted
                 /\ OthersUnchanged(last'.id)
                 /\ appts'[last'.id].status = "completed"
                 /\ appts'[last'.id].completion =
                      [set               |-> TRUE,
                       treatments        |-> CompletionData.treatments,
                       duringAppointment |-> CompletionData.notes.duringAppointment,
                       afterAppointment  |-> CompletionData.notes.afterAppointment,
                       dentistNotes      |-> CompletionData.notes.dentistNotes,
                       followUp          |-> CompletionData.followUp,
                       actualCost        |-> CompletionData.cost.actual]]_vars

C11_Witness ==
  /\ last.op = "complete" /\ last.code = 200
  /\ appts[last.id].status = "completed"
  /\ appts[last.id].rescheduling.set
  /\ appts[last.id].completion.set
  /\ appts[last.id].completion.actualCost = 80

(* C12: for times that match the schema pattern, checkConflict returns an  *)
(* appointment exactly when some stored appointment of the same dentist    *)
(* and date, neither cancelled nor no-show nor the excluded one, overlaps  *)
(* the candidate as half-open intervals of minutes from midnight.  Stated  *)
(* as in the claim; the query compares the stored strings.                 *)

C12_ConflictIffOverlap ==
  last.op = "checkConflict"
    => LET c == last.body
       IN  (/\ MatchesTimePattern(c.startTime) /\ MatchesTimePattern(c.endTime)
            /\ \A i \in 1..Len(appts) :
                 /\ MatchesTimePattern(appts[i].startTime)
                 /\ MatchesTimePattern(appts[i].endTime))
             => (last.id # 0
                   <=> \E i \in 1..Len(appts) :
                         /\ appts[i].dentist = c.dentist
                         /\ appts[i].appointmentDate = c.appointmentDate
                         /\ Active(appts[i])
                         /\ i # c.excludeId
                         /\ TimeOverlap(appts[i].startTime, appts[i].endTime,
                                        c.startTime, c.endTime))

(* C13: with one scheduled appointment 10:00-10:30 stored, checkConflict   *)
(* for the same dentist and date reports a conflict for 10:15-10:45 and    *)
(* none for 10:30-11:00; with 09:00-09:30 stored it reports none for       *)
(* 09:30-10:00.                                                            *)

C13_TouchingIsFree ==
  (/\ last.op = "checkConflict"
   /\ Len(appts) = 1
   /\ appts[1].status = "scheduled"
   /\ last.body.dentist = appts[1].dentist
   /\ last.body.appointmentDate = appts[1].appointmentDate
   /\ last.body.excludeId = 0)
    => LET stored    == << appts[1].startTime, appts[1].endTime >>
           candidate == << last.body.startTime, last.body.endTime >>
       IN  /\ (stored = <<T1000, T1030>> /\ candidate = <<T1015, T1045>>)
                => last.id = 1
           /\ (stored = <<T1000, T1030>> /\ candidate = <<T1030, T1100>>)
                => last.id = 0
           /\ (stored = <<T0900, T0930>> /\ candidate = <<T0930, T1000>>)
                => last.id = 0

C13_Witness ==
  /\ last.op = "checkConflict"
  /\ Len(appts) = 1
  /\ appts[1].status = "scheduled"
  /\ appts[1].startTime = T1000 /\ appts[1].endTime = T1030
  /\ last.body.dentist = "d1" /\ last.body.appointmentDate = 1
  /\ last.body.startTime = T1015 /\ last.body.endTime = T1045
  /\ last.id = 1

(* C14: every slot start returned by getAvailableSlots lies at or after    *)
(* the start of the matched weekly entry and ends, consultationDuration    *)
(* later, at or before its end, in minutes; an entry shorter than          *)
(* consultationDuration yields no slot.                                    *)

C14_SlotsFit ==
  last.op = "getAvailableSlots"
    => LET d == dentists["d1"]
           m == MatchedRule(d, last.body.date)
       IN  /\ last.result # << >> => m # 0
           /\ \A k \in 1..Len(last.result) :
                /\ ToMinutes(d.regularHours[m].startTime) <= ToMinutes(last.result[k])
                /\ ToMinutes(last.result[k]) + d.consultationDuration
                     <= ToMinutes(d.regularHours[m].endTime)
           /\ (/\ m # 0
               /\ ToMinutes(d.regularHours[m].endTime)
                    - ToMinutes(d.regularHours[m].startTime) < d.consultationDuration)
                => last.result = << >>

C14_Witness ==
  /\ last.op = "getAvailableSlots"
  /\ MatchedRule(dentists["d1"], last.body.date) # 0
  /\ dentists["d1"].regularHours[MatchedRule(dentists["d1"], last.body.date)].endTime
       = T1200
  /\ Len(last.result) = 4
  /\ ToMinutes(last.result[4]) + 30 < 12 * 60
  /\ ToMinutes(last.result[4]) + 45 + 30 > 12 * 60

(* C15: the slot starts are ascending, the first is the start of the       *)
(* matched entry, consecutive starts lie consultationDuration + bufferTime *)
(* minutes apart, each is zero-padded HH:MM; for 09:00-17:00, 30 and 15    *)
(* the first three are 09:00, 09:45, 10:30.                                *)

C15_SlotsSpaced ==
  (last.op = "getAvailableSlots" /\ last.result # << >>)
    => LET d    == dentists["d1"]
           rule == d.regularHours[MatchedRule(d, last.body.date)]
           r    == last.result
       IN  /\ \A k \in 1..Len(r) : ZeroPadded(r[k])
           /\ ToMinutes(r[1]) = ToMinutes(rule.startTime)
           /\ \A k \in 1..(Len(r) - 1) :
                /\ StrLess(r[k], r[k + 1])
                /\ ToMinutes(r[k + 1]) - ToMinutes(r[k])
                     = d.consultationDuration + d.bufferTime
           /\ (/\ rule.startTime = T0900 /\ rule.endTime = T1700
               /\ d.consultationDuration = 30 /\ d.bufferTime = 15)
                => SubSeq(r, 1, 3) = << T0900, T0945, T1030 >>

C15_Witness ==
  /\ last.op = "getAvailableSlots"
  /\ Len(last.result) > 3
  /\ SubSeq(last.result, 1, 3) = << T0900, T0945, T1030 >>
  /\ dentists["d1"].regularHours[MatchedRule(dentists["d1"], last.body.date)].endTime
       = T1700

(* C16: on a date inside an approved time-off entry, both ends included,   *)
(* getAvailableSlots returns no slot and isAvailableAt returns false;      *)
(* pending entries never change the result of either.                      *)

C16_ApprovedTimeOffBlocks ==
  LET d == dentists["d1"]
  IN  /\ last.op = "getAvailableSlots"
           => /\ Covered(d, last.body.date) => last.result = << >>
              /\ last.result = getAvailableSlots(WithoutPending(d), last.body.date)
      /\ last.op = "isAvailableAt"
           => /\ Covered(d, last.body.date) => last.result = FALSE
              /\ last.result = isAvailableAt(WithoutPending(d), last.body.date,
                                             last.body.startTime, last.body.endTime)

C16_Witness ==
  /\ last.op = "getAvailableSlots"
  /\ last.result = << >>
  /\ Len(dentists["d1"].timeOff) = 1
  /\ dentists["d1"].timeOff[1].isApproved
  /\ dentists["d1"].timeOff[1].startDate < last.body.date
  /\ dentists["d1"].timeOff[1].endDate = last.body.date
  /\ getAvailableSlots([dentists["d1"] EXCEPT !.timeOff = << >>], last.body.date)
       # << >>

(* C17: getAvailableSlots and isAvailableAt use the first entry of         *)
(* regularHours, in list order, that is active and on the day of the week  *)
(* of the date; other entries are ignored, and without such an entry the   *)
(* result is the empty list, resp. false.                                  *)

C17_FirstActiveRule ==
  LET d == dentists["d1"]
      m == MatchedRule(d, last.body.date)
  IN  /\ last.op = "getAvailableSlots"
           => last.result = IF m = 0 THEN << >>
                            ELSE getAvailableSlots(OnlyRule(d, m), last.body.date)
      /\ last.op = "isAvailableAt"
           => last.result = IF m = 0 THEN FALSE
                            ELSE isAvailableAt(OnlyRule(d, m), last.body.date,
                                               last.body.startTime, last.body.endTime)

C17_Witness ==
  /\ last.op = "getAvailableSlots"
  /\ Len(dentists["d1"].regularHours) = 2
  /\ \A i \in {1, 2} :
       /\ dentists["d1"].regularHours[i].isActive
       /\ dentists["d1"].regularHours[i].dayOfWeek = getDay(last.body.date)
  /\ dentists["d1"].regularHours[1].endTime = T1700
  /\ dentists["d1"].regularHours[2].endTime = T0920
  /\ Len(last.result) > 3

(* C18: for times that match the schema pattern, isAvailableAt is true     *)
(* exactly when an active weekly entry exists for the day of the date, the *)
(* interval lies within it with start before end, as times of day, and no  *)
(* approved time-off covers the date.  Stated as in the claim; the method  *)
(* compares the strings and never compares start with end.                 *)

C18_AvailableIffWithinRule ==
  (/\ last.op = "isAvailableAt"
   /\ MatchesTimePattern(last.body.startTime)
   /\ MatchesTimePattern(last.body.endTime))
    => LET d == dentists["d1"]
           m == MatchedRule(d, last.body.date)
       IN  last.result
             <=> /\ m # 0
                 /\ ToMinutes(d.regularHours[m].startTime) <= ToMinutes(last.body.startTime)
                 /\ ToMinutes(last.body.endTime) <= ToMinutes(d.regularHours[m].endTime)
                 /\ ToMinutes(last.body.startTime) < ToMinutes(last.body.endTime)
                 /\ ~ Covered(d, last.body.date)

(* C19: after any sequence of create, update and reschedule requests every *)
(* stored appointment has startTime before endTime and a duration equal to *)
(* their difference in minutes, at least 15.  Stated as in the claim;      *)
(* updateAppointment writes a start or end time without comparing the two  *)
(* and without recomputing the duration.                                   *)

C19_DurationMatchesInterval ==
  \A i \in 1..Len(appts) :
     /\ ToMinutes(appts[i].startTime) < ToMinutes(appts[i].endTime)
     /\ appts[i].duration = ToMinutes(appts[i].endTime) - ToMinutes(appts[i].startTime)
     /\ appts[i].duration >= 15

(* C20: a successful cancelAppointment sets status cancelled, records the  *)
(* reason, who cancelled (patient for a patient, dentist for the dentist   *)
(* role, staff otherwise), when, and the refund amount (0 when the request *)
(* gives none), and leaves dentist, patient, date and times unchanged.     *)

C20_CancelRecords ==
  [][(On("cancel") /\ Accepted)
       => LET a == appts[last'.id]
              b == appts'[last'.id]
          IN  /\ b.status = "cancelled"
              /\ b.cancellation.set
              /\ b.cancellation.reason = last'.body.reason
              /\ b.cancellation.cancelledBy =
                   (CASE last'.role = "patient" -> "patient"
                      [] last'.role = "dentist" -> "dentist"
                      [] OTHER -> "staff")
              /\ b.cancellation.cancelledAt = now
              /\ b.cancellation.refundAmount =
                   (IF "refundAmount" \in last'.body.keys
                      THEN last'.body.refundAmount ELSE 0)
              /\ b.dentist = a.dentist
              /\ b.patient = a.patient
              /\ b.appointmentDate = a.appointmentDate
              /\ b.startTime = a.startTime
              /\ b.endTime = a.endTime
              /\ OthersUnchanged(last'.id)]_vars

C20_Witness ==
  /\ last.op = "cancel" /\ last.code = 200
  /\ last.role = "dentist"
  /\ "refundAmount" \notin last.body.keys
  /\ appts[last.id].status = "cancelled"
  /\ appts[last.id].cancellation.cancelledBy = "dentist"
  /\ appts[last.id].cancellation.refundAmount = 0

(* C21: a successful reschedule records as rescheduling.originalDate and   *)
(* originalTime the appointment's date and start time just before the      *)
(* call, with the reason, who rescheduled and when, then sets date, start  *)
(* and end time to the requested values; dentist and patient stay.          *)

C21_RescheduleRecords ==
  [][(On("reschedule") /\ Accepted)
       => \A req \in AnyRequester, newDate \in Dates, iv \in Intervals,
             reason \in Reasons :
            rescheduleAppointment(req, last'.id, newDate, iv[1], iv[2], reason)
              => LET a == appts[last'.id]
                     b == appts'[last'.id]
                 IN  /\ b.rescheduling.set
                     /\ b.rescheduling.originalDate = a.appointmentDate
                     /\ b.rescheduling.originalTime = a.startTime
                     /\ b.rescheduling.reason = reason
                     /\ b.rescheduling.rescheduledBy =
                          (CASE req.role = "patient" -> "patient"
                             [] req.role = "dentist" -> "dentist"
                             [] OTHER -> "staff")
                     /\ b.rescheduling.rescheduledAt = now
                     /\ b.appointmentDate = newDate
                     /\ b.startTime = iv[1]
                     /\ b.endTime = iv[2]
                     /\ b.dentist = a.dentist
                     /\ b.patient = a.patient
                     /\ OthersUnchanged(last'.id)]_vars

\* a dentist's reschedule of an appointment that had been moved before
C21_Witness ==
  /\ last.op = "reschedule" /\ last.code = 200
  /\ last.id = 2
  /\ appts[last.id].rescheduling.set
  /\ appts[last.id].rescheduling.rescheduledBy = "dentist"
  /\ appts[last.id].rescheduling.originalDate # appts[last.id].appointmentDate
  /\ appts[last.id].rescheduling.originalTime # appts[last.id].startTime
  /\ appts[last.id].rescheduling.rescheduledAt = now - 1

(* C22 as stated: a patient-role user creates, updates, cancels and        *)
(* reschedules only appointments of their own patient profile, and updates *)
(* only symptoms and notes.beforeAppointment; every other attempt is       *)
(* answered 403 and changes no appointment; confirm, complete, reminder    *)
(* and delete are never executed for a patient-role user.                  *)

PatientRole == {req \in AnyRequester : req.role = "patient"}

Own(req, patient) == req.profile # None /\ patient = req.profile

\* the step changes nothing but symptoms and notes.beforeAppointment of id
OnlyPatientFields(id) ==
  /\ OthersUnchanged(id)
  /\ \A k \in DOMAIN appts[id] \ {"symptoms", "notes"} :
        appts'[id][k] = appts[id][k]

\* what a patient-role request may do; `refused` is the set of codes that
\* answer an attempt on somebody else's appointment at creation
PatientConfined(refused) ==
  /\ (last'.op = "create" /\ now' = now + 1) =>
       \A req \in PatientRole, body \in RouteCreateBodies :
          createAppointment(req, body) =>
            IF Own(req, body.patient)
              THEN appts' # appts =>
                     /\ SubSeq(appts', 1, Len(appts)) = appts
                     /\ Len(appts') = Len(appts) + 1
                     /\ appts'[Len(appts')].patient = req.profile
              ELSE last'.code \in refused /\ appts' = appts
  /\ On("update") =>
       \A req \in PatientRole, updates \in RouteUpdateBodies :
          updateAppointment(req, last'.id, updates) =>
            IF Own(req, appts[last'.id].patient) /\ updates.keys \subseteq AllowedFields
              THEN OnlyPatientFields(last'.id)
              ELSE last'.code = 403 /\ appts' = appts
  /\ On("cancel") =>
       \A req \in PatientRole, body \in CancelBodies :
          cancelAppointment(req, last'.id, body) =>
            IF Own(req, appts[last'.id].patient)
              THEN OthersUnchanged(last'.id)
              ELSE last'.code = 403 /\ appts' = appts
  /\ On("reschedule") =>
       \A req \in PatientRole, newDate \in Dates, iv \in Intervals,
          reason \in Reasons :
          rescheduleAppointment(req, last'.id, newDate, iv[1], iv[2], reason) =>
            IF Own(req, appts[last'.id].patient)
              THEN OthersUnchanged(last'.id)
              ELSE last'.code = 403 /\ appts' = appts
  /\ (last'.op \in {"confirm", "complete", "reminder", "delete"} /\ now' = now + 1) =>
       \A req \in PatientRole, id \in Ids :
          (\/ confirmAppointment(req, id)
           \/ \E body \in CompletionBodies : completeAppointment(req, id, body)
           \/ \E type \in ReminderTypes : sendReminder(req, id, type)
           \/ deleteAppointment(req, id))
            => last'.code = 403 /\ appts' = appts

C23_EverySlotThatFits ==
  (/\ last.op = "getAvailableSlots"
   /\ MatchedRule(dentists["d1"], last.body.date) # 0
   /\ ~ Covered(dentists["d1"], last.body.date))
    => LET d        == dentists["d1"]
           rule     == d.regularHours[MatchedRule(d, last.body.date)]
           start    == ToMinutes(rule.startTime)
           end      == ToMinutes(rule.endTime)
           duration == d.consultationDuration
           step     == d.consultationDuration + d.bufferTime
           fitting  == {k \in 0..(24 * 60) : start + k * step + duration <= end}
       IN  /\ duration >= 15 /\ d.bufferTime >= 0
           /\ Len(last.result) = Cardinality(fitting)
           /\ \A k \in fitting :
                ToMinutes(last.result[k + 1]) = start + k * step

C23_Witness ==
  /\ last.op = "getAvailableSlots"
  /\ dentists["d1"].consultationDuration = 15
  /\ dentists["d1"].bufferTime = 0
  /\ Len(last.result) = 32
  /\ last.result[32] = T1645

(* C24: after deactivateAccount a user's login attempts and requests to    *)
(* routes behind protect are answered 401 and change no account, until     *)
(* activateAccount by an admin names that user; nothing else makes the     *)
(* account active again, and once active the user is accepted again.       *)

Deactivated(u) == u \in DOMAIN users /\ ~ users[u].isActive

C24_DeactivatedUntilActivated ==
  [][/\ (last'.op = "login" /\ now' = now + 1) =>
          /\ Deactivated(last'.body.email)
                => last'.code = 401 /\ users' = users
          /\ (/\ last'.body.email \in DOMAIN users
              /\ users[last'.body.email].isActive
              /\ last'.body.password = "right") => last'.code = 200
     /\ (last'.op \in {"profile", "deactivate", "activate"} /\ now' = now + 1) =>
          LET token == last'.body.token
          IN  /\ Deactivated(token.userId)
                    => last'.code = 401 /\ users' = users
              /\ (/\ last'.op = "profile"
                  /\ token.present /\ token.valid
                  /\ token.userId \in DOMAIN users
                  /\ users[token.userId].isActive) => last'.code = 200
     /\ (last'.op = "deactivate" /\ now' = now + 1 /\ last'.code = 200)
          => ~ users'[last'.body.token.userId].isActive
     /\ \A u \in DOMAIN users :
          (Deactivated(u) /\ ~ Deactivated(u)')
            => /\ last'.op = "activate" /\ last'.code = 200
               /\ last'.body.userId = u
               /\ users[last'.body.token.userId].role = "admin"
               /\ users[last'.body.token.userId].isActive]_vars

C24_Witness ==
  /\ last.op = "login" /\ last.code = 401
  /\ last.body.email \in DOMAIN users
  /\ last.body.password = "right"
  /\ ~ users[last.body.email].isActive

(* C25: over any creations and deletions of patient profiles, the          *)
(* patientId the pre-save hook gives a new patient (PAT and the count of   *)
(* patients plus one, six digits) differs from every stored patientId, so  *)
(* the creation does not fail on the unique index.  Stated as in the       *)
(* claim; after a deletion the count repeats a number already given.       *)

C25_FreshPatientId ==
  [][(/\ last'.op = "createPatient" /\ now' = now + 1
      /\ last'.body.userId \in DOMAIN users
      /\ users[last'.body.userId].role = "patient"
      /\ ProfileOf(patients, last'.body.userId) = {})
       => /\ \A p \in patients : p.patientId # PatientIdOf(Cardinality(patients))
          /\ last'.code = 201
          /\ patients' = patients \cup
                { [userId |-> last'.body.userId,
                   patientId |-> PatientIdOf(Cardinality(patients))] }]_vars

(* C26: every slot start s that getAvailableSlots returns for a date is    *)
(* accepted by isAvailableAt for the same date with the end s plus         *)
(* consultationDuration written as zero-padded HH:MM, whatever the width   *)
(* of the hours in the weekly entries.  Stated as in the claim; the        *)
(* string comparison of isAvailableAt refuses the slots of an entry that   *)
(* starts with a one-digit hour.                                           *)

C26_SlotsAreBookable ==
  last.op = "getAvailableSlots"
    => \A k \in 1..Len(last.result) :
          isAvailableAt(dentists["d1"], last.body.date, last.result[k],
                        timeString(ToMinutes(last.result[k])
                                     + dentists["d1"].consultationDuration))

(* C27: an entry just added by addTimeOff has isApproved false; isApproved *)
(* of an entry changes only by an updateTimeOffStatus request of a staff   *)
(* role; and the answers of getAvailableSlots and isAvailableAt are those  *)
(* of the schedule without its pending entries.  Stated as in the claim;   *)
(* addTimeOff stores the isApproved that the request body carries.         *)

C27_BlocksOnlyAfterApproval ==
  [][LET off  == dentists["d1"].timeOff
         off2 == dentists'["d1"].timeOff
     IN  /\ (last'.op = "addTimeOff" /\ Len(off2) = Len(off) + 1)
              => /\ ~ off2[Len(off2)].isApproved
                 /\ SubSeq(off2, 1, Len(off)) = off
         /\ \A i \in 1..Len(off) :
              (Len(off2) >= i /\ off2[i].isApproved # off[i].isApproved)
                => /\ last'.op = "updateTimeOffStatus"
                   /\ last'.role \in {"dentist", "admin", "staff"}
                   /\ last'.id = i
                   /\ off2[i].isApproved = last'.body.isApproved
         /\ last'.op = "getAvailableSlots"
              => last'.result = getAvailableSlots(WithoutPending(dentists["d1"]),
                                                  last'.body.date)
         /\ last'.op = "isAvailableAt"
              => last'.result = isAvailableAt(WithoutPending(dentists["d1"]),
                                              last'.body.date, last'.body.startTime,
                                              last'.body.endTime)]_vars

(* C28: cancelling frees the slot.  Whatever appointments are stored,      *)
(* checkConflict never returns a cancelled or no-show appointment, and     *)
(* every createAppointment and rescheduleAppointment request gets the      *)
(* answer it would get if the cancelled and no-show appointments were in   *)
(* no dentist's diary.                                                     *)

Freed(appointment) == appointment.status \in {"cancelled", "no-show"}

\* the collection with the freed appointments in no diary; keep stays
WithoutFreed(coll, keep) ==
  [i \in 1..Len(coll) |->
     IF Freed(coll[i]) /\ i # keep THEN [coll[i] EXCEPT !.dentist = None]
     ELSE coll[i]]

C28_CancelFreesSlot ==
  /\ \A d \in DentistIds, date \in Dates, iv \in Intervals, x \in 0..Len(appts) :
       LET c == checkConflict(appts, d, date, iv[1], iv[2], x)
       IN  c # 0 => ~ Freed(appts[c])
  /\ (\E i \in 1..Len(appts) : Freed(appts[i]))
       => /\ \A req \in Requesters, body \in CreateBodies :
               createOutcome(appts, req, body)
                 = createOutcome(WithoutFreed(appts, 0), req, body)
          /\ \A req \in Requesters, id \in 1..Len(appts), newDate \in Dates,
                iv \in Intervals :
               rescheduleOutcome(appts, req, id, newDate, iv[1], iv[2])
                 = rescheduleOutcome(WithoutFreed(appts, id), req, id, newDate,
                                     iv[1], iv[2])

\* a create accepted for the dentist, date and interval of a cancelled
\* appointment
C28_Witness ==
  /\ last.op = "create"
  /\ last.code = 201
  /\ \E i \in 1..Len(appts) :
       /\ i # last.id
       /\ appts[i].status = "cancelled"
       /\ appts[i].dentist = appts[last.id].dentist
       /\ appts[i].appointmentDate = appts[last.id].appointmentDate
       /\ appts[i].startTime = appts[last.id].startTime
       /\ appts[i].endTime = appts[last.id].endTime

(* C29: no request books or moves an appointment onto a dentist who is     *)
(* not active.  After a createAppointment, updateAppointment or            *)
(* rescheduleAppointment request, every appointment that is new, or whose  *)
(* date, time or dentist changed, belongs to a dentist who exists and      *)
(* whose status is active.                                                 *)

Moved(before, after) ==
  \/ after.appointmentDate # before.appointmentDate
  \/ after.startTime # before.startTime
  \/ after.endTime # before.endTime
  \/ after.dentist # before.dentist

Bookable(dentistId) ==
  /\ dentistId \in DOMAIN dentists
  /\ dentists[dentistId].status = "active"

C29_OnlyActiveDentists ==
  [][last'.op \in {"create", "update", "reschedule"}
       => \A i \in 1..Len(appts') :
            (i > Len(appts) \/ Moved(appts[i], appts'[i]))
              => Bookable(appts'[i].dentist)]_vars

(* C30: for a patient-role requester, getAppointments and                  *)
(* getAppointmentsByDateRange return only appointments whose patient is    *)
(* the requester's own profile, and none when the requester has no         *)
(* profile.                                                                *)

C30_PatientSeesOwnOnly ==
  (/\ last.op \in {"getAppointments", "getAppointmentsByDateRange"}
   /\ last.role = "patient"
   /\ last.code = 200)
    => \A k \in 1..Len(last.result) :
          /\ last.body.profile # None
          /\ appts[last.result[k]].patient = last.body.profile

====
